---- MODULE Spec2Model ----
(***************************************************************************)
(* Model of the athenadriver session/client acquisition layer              *)
(* (connector.go: SQLConnector.Connect with the process-wide client cache  *)
(* and its RWMutex) and of the workgroup wrapper (wg.go).                  *)
(*                                                                         *)
(* Strings are TLA+ strings, so that the cache keys are built by the same  *)
(* concatenation fmt.Sprintf performs.  A goroutine calling Connect is a   *)
(* process p \in Procs; pc[p] is its position in Connect.                  *)
(***************************************************************************)
EXTENDS Integers, Sequences, FiniteSets, TLC

\* ---------------------------------------------------------------- bounds
NumProcs == 2        \* goroutines that call Connect
MaxCalls == 2        \* Connect calls made in one run, by all goroutines

Procs == 1..NumProcs

\* -------------------------------------------------- configuration values
\* Config accessors return plain strings; absence is the empty string.
MkConfig(r, pr, a, s, t) ==
  [region |-> r, profile |-> pr, accessID |-> a, secret |-> s, token |-> t]

\* The SQLConnector objects of the concurrent model and the configuration
\* each is built with: connectors 1 and 2 have static credentials that
\* differ only in the secret key, connector 3 has a region and a profile.
Connectors == {1, 2, 3}

ConnectorConfig(c) ==
  IF c = 1 THEN MkConfig("r1", "", "A", "s1", "")
  ELSE IF c = 2 THEN MkConfig("r1", "", "A", "s2", "")
  ELSE MkConfig("r1", "p", "", "", "")

\* Values of the environment variable AWS_SDK_LOAD_CONFIG ("" is unset).
EnvValues == {"", "true"}

\* ------------------------------------------------- credential resolution
\* strconv.ParseBool: the accepted spellings of true and false; anything
\* else is an error, which Connect discards, leaving ok = false.
ParseBool(str) ==
  IF str \in {"1", "t", "T", "TRUE", "true", "True"} THEN [ok |-> TRUE, err |-> FALSE]
  ELSE IF str \in {"0", "f", "F", "FALSE", "false", "False"} THEN [ok |-> FALSE, err |-> FALSE]
  ELSE [ok |-> FALSE, err |-> TRUE]

\* The arguments of one config.LoadDefaultConfig call.  shape names the call
\* shape; a field the call does not pass is "".
LoadArgs(shape, pr, r, a, s, t) ==
  [shape |-> shape, profile |-> pr, region |-> r, accessID |-> a, secret |-> s, token |-> t]

\* The zero aws.Config (var awsConfig aws.Config), also what a handle that
\* was never built holds.
ZeroConfig == LoadArgs("zero", "", "", "", "", "")

\* fmt.Sprintf("#%s#", profile)
EnvKey(profile) == "#" \o profile \o "#"

\* fmt.Sprintf("%s##%s", region, accessID)
StaticKey(region, accessID) == region \o "##" \o accessID

\* fmt.Sprintf("%s##", region)
RegionKey(region) == region \o "##"

\* Precedence of the environment-delegated branch before the static branch,
\* exchanged.
ResolveStaticFirst(cfg, envv) ==
  IF cfg.accessID # "" THEN
    [strategy |-> "static",
     cacheKey |-> StaticKey(cfg.region, cfg.accessID),
     load |-> LoadArgs("static", "", cfg.region, cfg.accessID, cfg.secret, cfg.token)]
  ELSE IF ParseBool(envv).ok THEN
    [strategy |-> "env",
     cacheKey |-> EnvKey(cfg.profile),
     load |-> IF cfg.profile # ""
              THEN LoadArgs("profile", cfg.profile, "", "", "", "")
              ELSE LoadArgs("default", "", "", "", "", "")]
  ELSE
    [strategy |-> "region",
     cacheKey |-> RegionKey(cfg.region),
     load |-> LoadArgs("region", "", cfg.region, "", "", "")]

\* The if / else-if / else chain of Connect: which branch runs, the cache
\* key it computes and the LoadDefaultConfig call it makes on a miss.
Resolve(cfg, envv) ==
  IF ParseBool(envv).ok THEN
    [strategy |-> "env",
     cacheKey |-> EnvKey(cfg.profile),
     load |-> IF cfg.profile # ""
              THEN LoadArgs("profile", cfg.profile, "", "", "", "")
              ELSE LoadArgs("default", "", "", "", "", "")]
  ELSE IF cfg.accessID # "" THEN
    [strategy |-> "static",
     cacheKey |-> StaticKey(cfg.region, cfg.accessID),
     load |-> LoadArgs("static", "", cfg.region, cfg.accessID, cfg.secret, cfg.token)]
  ELSE
    [strategy |-> "region",
     cacheKey |-> RegionKey(cfg.region),
     load |-> LoadArgs("region", "", cfg.region, "", "", "")]

\* ------------------------------------------------------- client handles
\* A *athena.Client: owner is the Connect call <<p, n>> that constructed it
\* (its identity), cfg the aws.Config it was constructed from.
NilClient == [owner |-> <<0, 0>>, cfg |-> ZeroConfig]

\* athena.NewFromConfig(awsConfig), called by the n-th call of p.
NewFromConfig(p, n, cfg) == [owner |-> <<p, n>>, cfg |-> cfg]

\* The nil driver.Conn returned with an error.
NilConn == [athenaAPI |-> NilClient, connector |-> 0]

\* ------------------------------------------------------- metrics scopes
NoScope == "none"          \* ctx.Value(MetricsKey) is not a tally.Scope
DefaultScope == "default"  \* the scope NewDefaultObservability installs

\* The metrics scope carried by the context goroutine p calls Connect with:
\* the first goroutine overrides the scope, the second does not, any further
\* one overrides it with another scope.
CtxOf(p) == IF p = 1 THEN "S1" ELSE IF p = 2 THEN NoScope ELSE "S2"

\* NewDefaultObservability(c.config): a fresh tracer with the default scope.
NewDefaultObservability(cfg) == [scope |-> DefaultScope]

TimerName == "connector.connect"
FailureName == "failure.sqlconnector.newsession"

\* -------------------------------------------------------------- state
VARIABLES
  env,           \* os.Getenv("AWS_SDK_LOAD_CONFIG")
  config,        \* config[c]: the config field of SQLConnector c
  tracer,        \* tracer[c]: the tracer field of SQLConnector c
  clients,       \* the package-level map from cache key to *athena.Client
  clientMutext,  \* the package-level sync.RWMutex
  mapFault,      \* the runtime saw unsynchronised access to the map
  pc,            \* pc[p]: position of goroutine p in Connect
  recv,          \* recv[p]: the connector c the call of p runs on
  ctx,           \* ctx[p]: the metrics scope carried by the context of p
  cacheKey,      \* locals of Connect, one copy for each goroutine
  athenaClient,
  awsConfig,
  err,
  client,        \* client, found := clients[cacheKey]
  found,
  calls,         \* calls[p]: number of Connect calls p has started
  result,        \* result[p]: what the last call of p returned
  emitted,       \* emitted[p]: metrics recorded by the current call of p
  succeeded,     \* history: keys of the calls that returned a Connection
  failedKeys,    \* history: keys of the calls that returned an error
  everStored,    \* history: every <<key, handle>> written to the map
  priorOK,       \* priorOK[p]: succeeded, as it was when the call of p began
  res,           \* state of the credential-resolution specification
  wg             \* state of the workgroup specification

connVars == <<env, config, tracer, clients, clientMutext, mapFault, pc, recv,
              ctx, cacheKey, athenaClient, awsConfig, err, client, found,
              calls, result, emitted, succeeded, failedKeys, everStored,
              priorOK>>
vars == <<connVars, res, wg>>

RECURSIVE SumCalls(_, _)
SumCalls(f, S) ==
  IF S = {} THEN 0
  ELSE LET x == CHOOSE y \in S : TRUE IN f[x] + SumCalls(f, S \ {x})

NoResult == [done |-> FALSE, conn |-> NilConn, err |-> "nil"]
EmptyMap == [k \in {} |-> NilClient]
ResIdle == [phase |-> "off"]
WgIdle == [phase |-> "off"]

\* State after package initialisation: empty map, free mutex, connectors
\* built with a configuration and a default tracer, no call started.
ConnStart(e, cf) ==
  /\ env = e
  /\ config = cf
  /\ tracer = [c \in Connectors |-> NewDefaultObservability(cf[c])]
  /\ clients = EmptyMap
  /\ clientMutext = [readers |-> {}, writer |-> 0]
  /\ mapFault = FALSE
  /\ pc = [p \in Procs |-> "idle"]
  /\ recv = [p \in Procs |-> 1]
  /\ ctx = [p \in Procs |-> NoScope]
  /\ cacheKey = [p \in Procs |-> ""]
  /\ athenaClient = [p \in Procs |-> NilClient]
  /\ awsConfig = [p \in Procs |-> ZeroConfig]
  /\ err = [p \in Procs |-> "nil"]
  /\ client = [p \in Procs |-> NilClient]
  /\ found = [p \in Procs |-> FALSE]
  /\ calls = [p \in Procs |-> 0]
  /\ result = [p \in Procs |-> NoResult]
  /\ emitted = [p \in Procs |-> <<>>]
  /\ succeeded = {}
  /\ failedKeys = {}
  /\ everStored = {}
  /\ priorOK = [p \in Procs |-> {}]

ConnInit == \E e \in EnvValues : ConnStart(e, [c \in Connectors |-> ConnectorConfig(c)])

\* The connector part of the state where no Connect call is made.
ConnQuiet == ConnStart("", [c \in Connectors |-> ConnectorConfig(c)])

Init == ConnInit /\ res = ResIdle /\ wg = WgIdle

\* ---------------------------------------------------- map and lock steps
\* client, found := clients[cacheKey]
MapLookupAlwaysMiss(m, key) == [client |-> NilClient, found |-> FALSE]

MapLookupAnyKey(m, key) ==
  IF DOMAIN m # {} THEN [client |-> m[CHOOSE k \in DOMAIN m : TRUE], found |-> TRUE]
  ELSE [client |-> NilClient, found |-> FALSE]

MapLookup(m, key) ==
  IF key \in DOMAIN m THEN [client |-> m[key], found |-> TRUE]
  ELSE [client |-> NilClient, found |-> FALSE]

\* clients[cacheKey] = athenaClient
MapStoreNothing(m, key, h) == m

MapStoreReplace(m, key, h) == [k \in {key} |-> h]

MapStoreNil(m, key, h) ==
  [k \in DOMAIN m \cup {key} |-> IF k = key THEN NilClient ELSE m[k]]

MapStore(m, key, h) ==
  [k \in DOMAIN m \cup {key} |-> IF k = key THEN h ELSE m[k]]

\* clientMutext.RLock() returns when no writer holds the mutex.
CanRLock(m) == m.writer = 0

\* clientMutext.RUnlock() by p
RUnlockMissing(m, p) == m

RUnlock(m, p) == [m EXCEPT !.readers = @ \ {p}]

\* clientMutext.Lock() returns when neither a writer nor a reader holds the
\* mutex.
CanLockDespiteReaders(m) == m.writer = 0

CanLock(m) == m.writer = 0 /\ m.readers = {}

\* if athenaClient == nil
NeedConstructAlways(c) == TRUE

NeedConstruct(c) == c = NilClient

\* if err != nil
ErrBranchNever(e) == FALSE

ErrBranch(e) == e # "nil"

\* c.tracer.Scope().Counter(DriverName + ".failure.sqlconnector.newsession").Inc(1)
FailureCounterMissing(em, scope) == em

FailureCounter(em, scope) == Append(em, [name |-> FailureName, scope |-> scope])

\* c.tracer.Scope().Timer(DriverName + ".connector.connect").Record(timeConnect)
ConnectTimer(em, scope) == Append(em, [name |-> TimerName, scope |-> scope])

\* ------------------------------------------------------ Connect, by step
\* Entry of Connect on connector c with the context of p:
\* c.tracer = NewDefaultObservability(c.config), and the declarations of
\* the locals.
Begin(p, c) ==
  /\ pc[p] = "idle"
  /\ SumCalls(calls, Procs) < MaxCalls
  /\ calls' = [calls EXCEPT ![p] = @ + 1]
  /\ recv' = [recv EXCEPT ![p] = c]
  /\ ctx' = [ctx EXCEPT ![p] = CtxOf(p)]
  /\ tracer' = [tracer EXCEPT ![c] = NewDefaultObservability(config[c])]
  /\ cacheKey' = [cacheKey EXCEPT ![p] = ""]
  /\ athenaClient' = [athenaClient EXCEPT ![p] = NilClient]
  /\ awsConfig' = [awsConfig EXCEPT ![p] = ZeroConfig]
  /\ err' = [err EXCEPT ![p] = "nil"]
  /\ client' = [client EXCEPT ![p] = NilClient]
  /\ found' = [found EXCEPT ![p] = FALSE]
  /\ result' = [result EXCEPT ![p] = NoResult]
  /\ emitted' = [emitted EXCEPT ![p] = <<>>]
  /\ priorOK' = [priorOK EXCEPT ![p] = succeeded]
  /\ pc' = [pc EXCEPT ![p] = "setScope"]
  /\ UNCHANGED <<env, config, clients, clientMutext, mapFault, succeeded,
                 failedKeys, everStored, res, wg>>

\* if metrics, ok := ctx.Value(MetricsKey).(tally.Scope); ok { c.tracer.SetScope(metrics) }
\* The tracer is whatever c.tracer holds now.  (The logger override is set
\* the same way and takes no part in the metrics.)
SetScope(p) ==
  /\ pc[p] = "setScope"
  /\ tracer' = IF ctx[p] # NoScope
               THEN [tracer EXCEPT ![recv[p]] = [scope |-> ctx[p]]]
               ELSE tracer
  /\ pc' = [pc EXCEPT ![p] = "rlock"]
  /\ UNCHANGED <<client, found, env, config, clients, clientMutext, mapFault, recv, ctx,
                 cacheKey, athenaClient, awsConfig, err, calls, result,
                 emitted, succeeded, failedKeys, everStored, priorOK, res, wg>>

\* The branch is chosen, cacheKey is computed and clientMutext.RLock() is
\* taken: a reader enters when no writer holds the mutex.
RLock(p) ==
  /\ pc[p] = "rlock"
  /\ CanRLock(clientMutext)
  /\ cacheKey' = [cacheKey EXCEPT ![p] = Resolve(config[recv[p]], env).cacheKey]
  /\ clientMutext' = [clientMutext EXCEPT !.readers = @ \cup {p}]
  /\ pc' = [pc EXCEPT ![p] = "lookup"]
  /\ UNCHANGED <<client, found, env, config, tracer, clients, mapFault, recv, ctx,
                 athenaClient, awsConfig, err, calls, result, emitted,
                 succeeded, failedKeys, everStored, priorOK, res, wg>>

\* client, found := clients[cacheKey]; clientMutext.RUnlock() on both
\* branches; on a hit athenaClient = client.
Lookup(p) ==
  /\ pc[p] = "lookup"
  /\ LET l == MapLookup(clients, cacheKey[p]) IN
       /\ client' = [client EXCEPT ![p] = l.client]
       /\ found' = [found EXCEPT ![p] = l.found]
       /\ athenaClient' = IF l.found THEN [athenaClient EXCEPT ![p] = l.client]
                          ELSE athenaClient
       /\ pc' = [pc EXCEPT ![p] = IF l.found THEN "checkErr" ELSE "load"]
  /\ clientMutext' = RUnlock(clientMutext, p)
  /\ mapFault' = (mapFault \/ \E q \in Procs \ {p} : pc[q] = "construct")
  /\ UNCHANGED <<env, config, tracer, clients, recv, ctx, cacheKey,
                 awsConfig, err, calls, result, emitted, succeeded,
                 failedKeys, everStored, priorOK, res, wg>>

\* awsConfig, err = config.LoadDefaultConfig(...) with the arguments of the
\* branch; the external load succeeds or fails.
Load(p) ==
  /\ pc[p] = "load"
  /\ \E ok \in BOOLEAN :
       IF ok
       THEN /\ awsConfig' = [awsConfig EXCEPT ![p] = Resolve(config[recv[p]], env).load]
            /\ err' = err
       ELSE /\ err' = [err EXCEPT ![p] = "loadError"]
            /\ awsConfig' = awsConfig
  /\ pc' = [pc EXCEPT ![p] = "checkErr"]
  /\ UNCHANGED <<client, found, env, config, tracer, clients, clientMutext, mapFault, recv,
                 ctx, cacheKey, athenaClient, calls, result, emitted,
                 succeeded, failedKeys, everStored, priorOK, res, wg>>

\* if err != nil { counter.Inc(1); return nil, err }, else on to
\* if athenaClient == nil.
CheckErr(p) ==
  /\ pc[p] = "checkErr"
  /\ IF ErrBranch(err[p])
     THEN /\ emitted' = [emitted EXCEPT ![p] = FailureCounter(@, tracer[recv[p]].scope)]
          /\ result' = [result EXCEPT ![p] = [done |-> TRUE, conn |-> NilConn, err |-> err[p]]]
          /\ failedKeys' = failedKeys \cup {cacheKey[p]}
          /\ pc' = [pc EXCEPT ![p] = "idle"]
     ELSE /\ pc' = [pc EXCEPT ![p] = IF NeedConstruct(athenaClient[p]) THEN "lock" ELSE "record"]
          /\ UNCHANGED <<emitted, result, failedKeys>>
  /\ UNCHANGED <<client, found, env, config, tracer, clients, clientMutext, mapFault, recv,
                 ctx, cacheKey, athenaClient, awsConfig, err, calls,
                 succeeded, everStored, priorOK, res, wg>>

\* clientMutext.Lock(): a writer enters when nobody holds the mutex.
Lock(p) ==
  /\ pc[p] = "lock"
  /\ CanLock(clientMutext)
  /\ clientMutext' = [clientMutext EXCEPT !.writer = p]
  /\ pc' = [pc EXCEPT ![p] = "construct"]
  /\ UNCHANGED <<client, found, env, config, tracer, clients, mapFault, recv, ctx, cacheKey,
                 athenaClient, awsConfig, err, calls, result, emitted,
                 succeeded, failedKeys, everStored, priorOK, res, wg>>

\* athenaClient = athena.NewFromConfig(awsConfig); clients[cacheKey] = athenaClient
Construct(p) ==
  /\ pc[p] = "construct"
  /\ LET h == NewFromConfig(p, calls[p], awsConfig[p]) IN
       /\ athenaClient' = [athenaClient EXCEPT ![p] = h]
       /\ clients' = MapStore(clients, cacheKey[p], h)
       /\ everStored' = everStored \cup
            {[key |-> k, handle |-> MapStore(clients, cacheKey[p], h)[k]] :
               k \in {x \in DOMAIN MapStore(clients, cacheKey[p], h) :
                        x \notin DOMAIN clients
                        \/ MapStore(clients, cacheKey[p], h)[x] # clients[x]}}
  /\ mapFault' = (mapFault \/ \E q \in Procs \ {p} : pc[q] \in {"lookup", "construct"})
  /\ pc' = [pc EXCEPT ![p] = "unlock"]
  /\ UNCHANGED <<client, found, env, config, tracer, clientMutext, recv, ctx, cacheKey,
                 awsConfig, err, calls, result, emitted, succeeded,
                 failedKeys, priorOK, res, wg>>

\* clientMutext.Unlock()
Unlock(p) ==
  /\ pc[p] = "unlock"
  /\ clientMutext' = [clientMutext EXCEPT !.writer = 0]
  /\ pc' = [pc EXCEPT ![p] = "record"]
  /\ UNCHANGED <<client, found, env, config, tracer, clients, mapFault, recv, ctx, cacheKey,
                 athenaClient, awsConfig, err, calls, result, emitted,
                 succeeded, failedKeys, everStored, priorOK, res, wg>>

\* conn := &Connection{athenaAPI: athenaClient, connector: c}; the timer is
\* recorded in the scope of whatever c.tracer holds now; return conn, nil.
Record(p) ==
  /\ pc[p] = "record"
  /\ emitted' = [emitted EXCEPT ![p] = ConnectTimer(@, tracer[recv[p]].scope)]
  /\ result' = [result EXCEPT ![p] =
                  [done |-> TRUE,
                   conn |-> [athenaAPI |-> athenaClient[p], connector |-> recv[p]],
                   err |-> "nil"]]
  /\ succeeded' = succeeded \cup {cacheKey[p]}
  /\ pc' = [pc EXCEPT ![p] = "idle"]
  /\ UNCHANGED <<client, found, env, config, tracer, clients, clientMutext, mapFault, recv,
                 ctx, cacheKey, athenaClient, awsConfig, err, calls,
                 failedKeys, everStored, priorOK, res, wg>>

Next ==
  \/ \E p \in Procs, c \in Connectors : Begin(p, c)
  \/ \E p \in Procs : SetScope(p)
  \/ \E p \in Procs : RLock(p)
  \/ \E p \in Procs : Lookup(p)
  \/ \E p \in Procs : Load(p)
  \/ \E p \in Procs : CheckErr(p)
  \/ \E p \in Procs : Lock(p)
  \/ \E p \in Procs : Construct(p)
  \/ \E p \in Procs : Unlock(p)
  \/ \E p \in Procs : Record(p)

Spec == Init /\ [][Next]_vars

\* The steps of a Connect call once it has been entered.
Step(p) ==
  \/ SetScope(p) \/ RLock(p) \/ Lookup(p) \/ Load(p) \/ CheckErr(p)
  \/ Lock(p) \/ Construct(p) \/ Unlock(p) \/ Record(p)

\* The goroutines are scheduled fairly and every configuration load
\* returns: a call that can take a step eventually takes one.
FairSpec == Init /\ [][Next]_vars /\ \A p \in Procs : WF_vars(Step(p))

\* =============================================== credential resolution
\* The resolution of Connect applied to two callers, each with its own
\* configuration and environment value: res.a and res.b are the inputs,
\* res.outA and res.outB what the branch chain computes for them.
KeyRegions == {"r1", "r2"}
KeyProfiles == {"", "p"}
KeyAccessIDs == {"", "A"}
KeySecrets == {"s1", "s2"}
KeyTokens == {"", "t"}
KeyEnvValues == {"", "true", "1", "false", "yes"}

KeyInputs ==
  {[cfg |-> MkConfig(r, pr, a, s, t), envv |-> e] :
     r \in KeyRegions, pr \in KeyProfiles, a \in KeyAccessIDs,
     s \in KeySecrets, t \in KeyTokens, e \in KeyEnvValues}

NoResolution == [strategy |-> "", cacheKey |-> "", load |-> ZeroConfig]

KeyInit ==
  /\ ConnQuiet
  /\ wg = WgIdle
  /\ \E x \in KeyInputs, y \in KeyInputs :
       res = [phase |-> "in", a |-> x, b |-> y, doneA |-> FALSE, doneB |-> FALSE,
              outA |-> NoResolution, outB |-> NoResolution]

ResolveA ==
  /\ res.phase = "in"
  /\ ~res.doneA
  /\ res' = [res EXCEPT !.doneA = TRUE, !.outA = Resolve(res.a.cfg, res.a.envv)]
  /\ UNCHANGED <<connVars, wg>>

ResolveB ==
  /\ res.phase = "in"
  /\ ~res.doneB
  /\ res' = [res EXCEPT !.doneB = TRUE, !.outB = Resolve(res.b.cfg, res.b.envv)]
  /\ UNCHANGED <<connVars, wg>>

KeyNext == ResolveA \/ ResolveB

SpecKey == KeyInit /\ [][KeyNext]_vars

\* ============================================================ workgroups
\* A *WGTags: nil, or an object holding a slice of tags.
NilTags == [isNil |-> TRUE, tags |-> <<>>]
MkTags(ts) == [isNil |-> FALSE, tags |-> ts]

\* NewWGTags(): an empty tag set.
NewWGTags == MkTags(<<>>)

\* (*WGTags).Get(): the tags of the set; a nil set has none.
TagsGet(t) == IF t.isNil THEN <<>> ELSE t.tags

\* A nil *types.WorkGroupConfiguration, and GetDefaultWGConfig().
NilWGConfig == "nil"
GetDefaultWGConfig == "defaultWGConfig"

WGNames == {"wg1", "wg2"}
WGConfigs == {NilWGConfig, "cfgA"}
WGTagSets == {NilTags, MkTags(<<>>), MkTags(<<"k1=v1">>), MkTags(<<"k1=v1", "k2=v2">>),
              MkTags(<<"k2=v2", "k1=v1">>)}

\* The client handles handed to the workgroup operations: nil or a handle.
SomeClient == NewFromConfig(1, 1, LoadArgs("region", "", "r1", "", "", ""))
WGClients == {NilClient, SomeClient}
RemoteErrs == {"nil", "remoteError"}
ErrAthenaNilAPI == "ErrAthenaNilAPI"

NewDefaultWG(name, cfg, tags) ==
  [Name |-> name,
   Config |-> IF cfg = NilWGConfig THEN GetDefaultWGConfig ELSE cfg,
   Tags |-> IF ~tags.isNil THEN tags ELSE NewWGTags]

\* A constructor that replaces nil tags by an empty tag set.
NewWGFillsTags(name, cfg, tags) ==
  [Name |-> name, Config |-> cfg, Tags |-> IF tags.isNil THEN NewWGTags ELSE tags]

NewWG(name, cfg, tags) == [Name |-> name, Config |-> cfg, Tags |-> tags]

\* The request with the Tags field set whatever the tags are.
CreateWorkGroupInputAlwaysTags(w) ==
  [op |-> "CreateWorkGroup", Name |-> w.Name, Configuration |-> w.Config,
   hasTags |-> TRUE, Tags |-> TagsGet(w.Tags)]

\* The athena.CreateWorkGroupInput CreateWGRemotely builds: without the Tags
\* field when len(tags) == 0, with Tags: w.Tags.Get() otherwise.
CreateWorkGroupInput(w) ==
  IF Len(TagsGet(w.Tags)) = 0
  THEN [op |-> "CreateWorkGroup", Name |-> w.Name, Configuration |-> w.Config,
        hasTags |-> FALSE, Tags |-> <<>>]
  ELSE [op |-> "CreateWorkGroup", Name |-> w.Name, Configuration |-> w.Config,
        hasTags |-> TRUE, Tags |-> TagsGet(w.Tags)]

\* The athena.GetWorkGroupInput getWG builds.
GetWorkGroupInput(name) ==
  [op |-> "GetWorkGroup", Name |-> name, Configuration |-> NilWGConfig,
   hasTags |-> FALSE, Tags |-> <<>>]

NoWG == [Name |-> "", Config |-> NilWGConfig, Tags |-> NilTags]
NoReturn == [op |-> "", err |-> "nil", out |-> ""]

\* getWG without the check of the handle.
GetWGUnchecked(svc, name, e) ==
  [sent |-> <<GetWorkGroupInput(name)>>,
   ret |-> IF e # "nil"
           THEN [op |-> "getWG", err |-> e, out |-> ""]
           ELSE [op |-> "getWG", err |-> "nil", out |-> "WorkGroup:" \o name]]

\* getWG(ctx, athenaService, Name) where the remote call, if made, answers
\* e: the requests it sends and what it returns.
GetWGCall(svc, name, e) ==
  IF svc = NilClient
  THEN [sent |-> <<>>, ret |-> [op |-> "getWG", err |-> ErrAthenaNilAPI, out |-> ""]]
  ELSE [sent |-> <<GetWorkGroupInput(name)>>,
        ret |-> IF e # "nil"
                THEN [op |-> "getWG", err |-> e, out |-> ""]
                ELSE [op |-> "getWG", err |-> "nil", out |-> "WorkGroup:" \o name]]

\* wg.w is the Workgroup, wg.ctor the constructor that built it from wg.args,
\* wg.svc the handle the operation was called with, wg.asked the name given
\* to getWG, wg.remote the answer of the remote service, wg.requests the
\* requests the remote service has received, wg.ret what the operation
\* returned, wg.phase how far the run is.
WGInit ==
  /\ ConnQuiet
  /\ res = ResIdle
  /\ wg = [phase |-> "new", w |-> NoWG, ctor |-> "", args |-> NoWG,
           svc |-> NilClient, asked |-> "", remote |-> "nil",
           requests |-> <<>>, ret |-> NoReturn]

DoNewWG ==
  /\ wg.phase = "new"
  /\ \E n \in WGNames, c \in WGConfigs, t \in WGTagSets :
       wg' = [wg EXCEPT !.phase = "built", !.w = NewWG(n, c, t), !.ctor = "NewWG",
                        !.args = [Name |-> n, Config |-> c, Tags |-> t]]
  /\ UNCHANGED <<connVars, res>>

DoNewDefaultWG ==
  /\ wg.phase = "new"
  /\ \E n \in WGNames, c \in WGConfigs, t \in WGTagSets :
       wg' = [wg EXCEPT !.phase = "built", !.w = NewDefaultWG(n, c, t),
                        !.ctor = "NewDefaultWG",
                        !.args = [Name |-> n, Config |-> c, Tags |-> t]]
  /\ UNCHANGED <<connVars, res>>

\* w.CreateWGRemotely(athenaService): one CreateWorkGroup call on the handle,
\* whose error is returned.  The call on a nil handle dereferences it.
CreateWGRemotely ==
  /\ wg.phase = "built"
  /\ \E svc \in WGClients, e \in RemoteErrs :
       IF svc = NilClient
       THEN wg' = [wg EXCEPT !.phase = "panic", !.svc = svc]
       ELSE wg' = [wg EXCEPT !.phase = "created", !.svc = svc, !.remote = e,
                             !.requests = Append(@, CreateWorkGroupInput(wg.w)),
                             !.ret = [op |-> "CreateWGRemotely", err |-> e, out |-> ""]]
  /\ UNCHANGED <<connVars, res>>

\* getWG(ctx, athenaService, Name)
GetWG ==
  /\ wg.phase \in {"new", "built"}
  /\ \E svc \in WGClients, n \in WGNames, e \in RemoteErrs :
       wg' = [wg EXCEPT !.phase = "got", !.svc = svc, !.asked = n, !.remote = e,
                        !.requests = @ \o GetWGCall(svc, n, e).sent,
                        !.ret = GetWGCall(svc, n, e).ret]
  /\ UNCHANGED <<connVars, res>>

WGNext == DoNewWG \/ DoNewDefaultWG \/ CreateWGRemotely \/ GetWG

SpecWG == WGInit /\ [][WGNext]_vars

\* ============================================================ properties
AllReturned == \A p \in Procs : pc[p] = "idle"

\* The Connect call of p has returned a Connection.
ReturnedConn(p) == result[p].done /\ result[p].err = "nil"

\* The Connect call of p has returned an error.
ReturnedErr(p) == result[p].done /\ result[p].err # "nil"

\* The handles that were ever written to the map under key.
StoredUnder(key) == {s.handle : s \in {t \in everStored : t.key = key}}

\* The Connect call p is in, or has last returned from.
CallOf(p) == <<p, calls[p]>>

\* C1: when every Connect call made so far resolved to one key K, its
\* configuration load succeeded and all calls have returned, the cache holds
\* exactly one entry, under K, that entry is a non-nil handle constructed
\* from a loaded configuration, and the map was never accessed unguarded.
C1_OneEntryAfterConcurrentConnects ==
  \A K \in succeeded :
    (AllReturned /\ succeeded = {K} /\ failedKeys = {})
      => /\ DOMAIN clients = {K}
         /\ clients[K] # NilClient
         /\ clients[K].cfg # ZeroConfig
         /\ clients[K] \in StoredUnder(K)
         /\ ~mapFault

\* Two calls for one key missed the cache concurrently, both constructed a
\* handle, and both have returned.
C1_Witness ==
  /\ AllReturned
  /\ failedKeys = {}
  /\ \E K \in succeeded : succeeded = {K} /\ Cardinality(StoredUnder(K)) >= 2
  /\ \E p, q \in Procs : p # q /\ ReturnedConn(p) /\ ReturnedConn(q)

\* C2 as stated: all Connections returned for one cache key reference the
\* same handle, the one stored in the cache under that key, also when the
\* calls missed the cache concurrently.
C2_Original_SameHandlePerKey ==
  \A p, q \in Procs :
    (ReturnedConn(p) /\ ReturnedConn(q) /\ cacheKey[p] = cacheKey[q])
      => /\ result[p].conn.athenaAPI = result[q].conn.athenaAPI
         /\ cacheKey[p] \in DOMAIN clients
         /\ result[p].conn.athenaAPI = clients[cacheKey[p]]

\* C2 amended: the cache holds one handle for each key; every Connection
\* returned for key K references a handle that was constructed for K and
\* stored under K; and as long as a single handle has been constructed for K
\* (no two calls missed the cache for K concurrently) all Connections
\* returned for K reference that handle, which is the one in the cache.
C2_SharedHandleUnlessConcurrentMiss ==
  \A p \in Procs :
    ReturnedConn(p)
      => /\ cacheKey[p] \in DOMAIN clients
         /\ result[p].conn.athenaAPI \in StoredUnder(cacheKey[p])
         /\ clients[cacheKey[p]] \in StoredUnder(cacheKey[p])
         /\ Cardinality(StoredUnder(cacheKey[p])) = 1
              => /\ result[p].conn.athenaAPI = clients[cacheKey[p]]
                 /\ \A q \in Procs :
                      (ReturnedConn(q) /\ cacheKey[q] = cacheKey[p])
                        => result[q].conn.athenaAPI = result[p].conn.athenaAPI

\* Two calls on different connectors returned Connections for one key, the
\* second from the cache: they share the single handle constructed for it.
C2_Witness ==
  \E p, q \in Procs :
    /\ p # q
    /\ ReturnedConn(p) /\ ReturnedConn(q)
    /\ cacheKey[p] = cacheKey[q]
    /\ recv[p] # recv[q]
    /\ Cardinality(StoredUnder(cacheKey[p])) = 1
    /\ result[q].conn.athenaAPI.owner = CallOf(p)

\* C3: a Connect call that began after a call for the same cache key had
\* returned a Connection never runs the configuration load (it is never at
\* the load, and holds neither a loaded configuration nor a load error), and
\* the Connection it returns references a handle taken from the cache, not
\* one it constructed.
C3_NoReloadAfterSuccess ==
  \A p \in Procs :
    cacheKey[p] \in priorOK[p]
      => /\ pc[p] # "load"
         /\ awsConfig[p] = ZeroConfig
         /\ err[p] = "nil"
         /\ result[p].done
              => /\ ReturnedConn(p)
                 /\ result[p].conn.athenaAPI.owner # CallOf(p)
                 /\ result[p].conn.athenaAPI \in StoredUnder(cacheKey[p])

\* A second call of the same goroutine hit the cache after its first call
\* had constructed the handle.
C3_Witness ==
  \E p \in Procs :
    /\ calls[p] = 2
    /\ ReturnedConn(p)
    /\ cacheKey[p] \in priorOK[p]
    /\ result[p].conn.athenaAPI.owner = <<p, 1>>

\* C7: a Connect call whose configuration load failed only goes on to the
\* error check and returns; it returns the error with a nil Connection, and
\* no write to the map, past or present, is its own.  Nothing is cached for
\* the failure: every handle in the map was constructed from a loaded
\* configuration.
C7_LoadFailureLeavesCacheAlone ==
  /\ \A p \in Procs :
       err[p] # "nil"
         => /\ pc[p] \in {"checkErr", "idle"}
            /\ pc[p] = "idle" => (ReturnedErr(p) /\ result[p].conn = NilConn)
            /\ \A s \in everStored : s.handle.owner # CallOf(p)
            /\ \A k \in DOMAIN clients : clients[k].owner # CallOf(p)
  /\ \A p \in Procs : ReturnedErr(p) => err[p] # "nil"
  /\ \A k \in DOMAIN clients : clients[k].cfg # ZeroConfig

\* The only goroutine that ran made two calls: the first failed, the second,
\* for the same key, loaded again, succeeded and constructed the handle.
C7_Witness ==
  \E p \in Procs :
    /\ calls[p] = 2
    /\ \A q \in Procs \ {p} : calls[q] = 0
    /\ cacheKey[p] \in failedKeys
    /\ ReturnedConn(p)
    /\ result[p].conn.athenaAPI.owner = CallOf(p)

\* C8: a Connect call records nothing before its return; a call that
\* returned a Connection has recorded exactly one metric, the
\* connector.connect timer; a call that returned an error has recorded
\* exactly one metric, the failure.sqlconnector.newsession counter.
C8_ExactlyOneMetricPerCall ==
  \A p \in Procs :
    /\ ~result[p].done => emitted[p] = <<>>
    /\ ReturnedConn(p) => (Len(emitted[p]) = 1 /\ emitted[p][1].name = TimerName)
    /\ ReturnedErr(p) => (Len(emitted[p]) = 1 /\ emitted[p][1].name = FailureName)

\* One call has returned a Connection and another an error.
C8_Witness ==
  \E p, q \in Procs :
    /\ ReturnedConn(p) /\ Len(emitted[p]) = 1
    /\ ReturnedErr(q) /\ Len(emitted[q]) = 1

\* The scope the call of p is to record in: the one its own context carries,
\* or the default one.
OwnScope(p) == IF ctx[p] # NoScope THEN ctx[p] ELSE DefaultScope

\* C9: the metric of every returned Connect call was recorded in the scope
\* carried by the context of that call, or in the default scope when the
\* context carries none.
C9_MetricInOwnScope ==
  \A p \in Procs :
    result[p].done => \A i \in 1..Len(emitted[p]) : emitted[p][i].scope = OwnScope(p)

\* ------------------------------------------- credential resolution claims
\* The spellings strconv.ParseBool reads as true.
FlagOn(e) == e \in {"1", "t", "T", "TRUE", "true", "True"}

\* What C4 states for input x resolved to out.
C4_For(x, out) ==
  /\ FlagOn(x.envv)
       => (out.strategy = "env" /\ out.cacheKey = "#" \o x.cfg.profile \o "#")
  /\ (FlagOn(x.envv) /\ x.cfg.profile = "") => out.cacheKey = "##"
  /\ (~FlagOn(x.envv) /\ x.cfg.accessID # "")
       => /\ out.strategy = "static"
          /\ out.cacheKey = x.cfg.region \o "##" \o x.cfg.accessID
          /\ out.cacheKey # x.cfg.region \o "##"
  /\ (~FlagOn(x.envv) /\ x.cfg.accessID = "")
       => (out.strategy = "region" /\ out.cacheKey = x.cfg.region \o "##")
  /\ out.strategy \in {"env", "static", "region"}

C5_For(x, out) ==
  x.cfg.profile # ""
    => (out.load.shape = "profile" /\ out.load.profile = x.cfg.profile)

\* C5: for every configuration with a non-empty profile the session is
\* loaded from that profile, whatever the environment flag is and whether or
\* not an access id is configured.
C5_ProfileFirst ==
  /\ res.doneA => C5_For(res.a, res.outA)
  /\ res.doneB => C5_For(res.b, res.outB)

\* C6: two resolved configurations that authenticate identically (same load
\* call with the same arguments) have the same cache key, and two that
\* differ in the strategy or in any argument of the load call have
\* different cache keys.
C6_KeyIdentifiesAuthentication ==
  (res.doneA /\ res.doneB)
    => ((res.outA.load = res.outB.load) <=> (res.outA.cacheKey = res.outB.cacheKey))

\* ------------------------------------------------------ workgroup claims
\* C10: a completed CreateWGRemotely has sent exactly one request, a
\* CreateWorkGroup carrying the stored name and configuration; with a
\* non-nil empty tag set the request has no Tags field, and with at least
\* one tag its Tags field holds exactly the tags of the Workgroup.
C10_CreateRequestShape ==
  wg.phase = "created"
    => /\ Len(wg.requests) = 1
       /\ wg.requests[1].op = "CreateWorkGroup"
       /\ wg.requests[1].Name = wg.w.Name
       /\ wg.requests[1].Configuration = wg.w.Config
       /\ (~wg.w.Tags.isNil /\ wg.w.Tags.tags = <<>>) => ~wg.requests[1].hasTags
       /\ Len(wg.w.Tags.tags) >= 1
            => (wg.requests[1].hasTags /\ wg.requests[1].Tags = wg.w.Tags.tags)

\* CreateWGRemotely has been called on a Workgroup with a non-nil empty tag
\* set and sent a request.
C10_WitnessEmptyTags ==
  /\ wg.phase = "created"
  /\ ~wg.w.Tags.isNil /\ wg.w.Tags.tags = <<>>
  /\ Len(wg.requests) = 1

\* C11: a Workgroup built by NewWG holds the name, configuration and tags it
\* was given, unchanged; CreateWGRemotely on such a Workgroup with nil tags,
\* called with a client handle, completes: it has sent one CreateWorkGroup
\* request without a Tags field and returned the answer of the remote call.
C11_NewWGVerbatimNilTagsNoTags ==
  wg.ctor = "NewWG"
    => /\ wg.w.Name = wg.args.Name
       /\ wg.w.Config = wg.args.Config
       /\ wg.w.Tags = wg.args.Tags
       /\ (wg.phase = "panic" => wg.svc = NilClient)
       /\ (wg.phase = "created" /\ wg.args.Tags.isNil)
            => /\ wg.w.Tags.isNil
               /\ Len(wg.requests) = 1
               /\ wg.requests[1].op = "CreateWorkGroup"
               /\ ~wg.requests[1].hasTags
               /\ wg.ret.op = "CreateWGRemotely"
               /\ wg.ret.err = wg.remote

\* CreateWGRemotely on a NewWG Workgroup with nil tags has returned the
\* error of the remote call.
C11_Witness ==
  /\ wg.ctor = "NewWG"
  /\ wg.phase = "created"
  /\ wg.w.Tags.isNil
  /\ wg.ret.err = "remoteError"

\* C12: getWG called with a nil handle returns ErrAthenaNilAPI and no
\* descriptor and sends no request; called with a handle it sends exactly one
\* GetWorkGroup request for the name and returns the descriptor of the
\* remote answer, or the remote error unchanged and no descriptor.
C12_GetWGNilHandle ==
  wg.phase = "got"
    => /\ wg.ret.op = "getWG"
       /\ wg.svc = NilClient
            => (wg.ret.err = ErrAthenaNilAPI /\ wg.ret.out = "" /\ wg.requests = <<>>)
       /\ wg.svc # NilClient
            => /\ Len(wg.requests) = 1
               /\ wg.requests[1].op = "GetWorkGroup"
               /\ wg.requests[1].Name = wg.asked
               /\ wg.remote = "nil"
                    => (wg.ret.err = "nil" /\ wg.ret.out = "WorkGroup:" \o wg.asked)
               /\ wg.remote # "nil" => (wg.ret.err = wg.remote /\ wg.ret.out = "")

\* getWG has been called with a nil handle.
C12_Witness ==
  /\ wg.phase = "got"
  /\ wg.svc = NilClient
  /\ wg.ret.err = ErrAthenaNilAPI

\* ------------------------------------------------ lock discipline claims
\* C13: a call at the configuration load holds neither lock, and a call
\* that holds the write lock has its handle already constructed (the handle
\* is constructed before the write lock is taken, which is held only for the
\* store).
C13_ConstructOutsideLock ==
  \A p \in Procs :
    /\ pc[p] = "load" => (p \notin clientMutext.readers /\ clientMutext.writer # p)
    /\ clientMutext.writer = p => athenaClient[p] # NilClient

\* C14: every key of the map is bound to a non-nil handle that a Connect
\* call constructed from a loaded configuration, and a lookup that found a
\* key obtained such a handle.
C14_NoNilHandleInCache ==
  /\ \A k \in DOMAIN clients :
       /\ clients[k] # NilClient
       /\ clients[k].cfg # ZeroConfig
       /\ clients[k].owner[1] \in Procs
       /\ clients[k] \in StoredUnder(k)
  /\ \A p \in Procs :
       found[p] => (client[p] # NilClient /\ client[p].cfg # ZeroConfig)

\* One call has failed and another has stored a handle and returned.
C14_Witness ==
  /\ failedKeys # {}
  /\ \E p \in Procs :
       /\ ReturnedConn(p)
       /\ cacheKey[p] \in DOMAIN clients
       /\ result[p].conn.athenaAPI = clients[cacheKey[p]]

\* C15: no step removes a key from the map.
C15_KeysOnlyGrow == [][DOMAIN clients \subseteq DOMAIN clients']_vars

\* The map holds two keys.
C15_Witness == Cardinality(DOMAIN clients) = 2

\* C16: a call is at the map read exactly while it holds the read lock, and
\* at the map write (until its Unlock) exactly while it holds the write
\* lock; while a writer holds the mutex no reader does, so no call writes the
\* map while another reads or writes it, and the runtime never sees
\* unguarded access.
C16_ReaderWriterExclusion ==
  /\ \A p \in Procs :
       /\ pc[p] = "lookup" <=> p \in clientMutext.readers
       /\ pc[p] \in {"construct", "unlock"} <=> clientMutext.writer = p
  /\ clientMutext.writer # 0 => clientMutext.readers = {}
  /\ \A p, q \in Procs :
       (p # q /\ pc[p] = "construct") => pc[q] \notin {"lookup", "construct"}
  /\ ~mapFault

\* Two calls are inside the lookup section at the same time.
C16_Witness ==
  \E p, q \in Procs :
    /\ p # q
    /\ pc[p] = "lookup" /\ pc[q] = "lookup"
    /\ {p, q} \subseteq clientMutext.readers

\* C17: a call holds the read lock only at the lookup (it is released right
\* after it, on a hit and on a miss) and holds no lock once it has returned;
\* and under fair scheduling every call that has been entered returns.
C17_LocksReleasedAndCallsReturn ==
  /\ [](\A p \in Procs :
          /\ p \in clientMutext.readers => pc[p] = "lookup"
          /\ pc[p] = "idle" => (p \notin clientMutext.readers /\ clientMutext.writer # p))
  /\ \A p \in Procs : (pc[p] # "idle") ~> (pc[p] = "idle")

\* All calls have returned, one through the miss path and one through the
\* hit path, and the mutex is free.
C17_Witness ==
  /\ AllReturned
  /\ SumCalls(calls, Procs) = MaxCalls
  /\ clientMutext = [readers |-> {}, writer |-> 0]
  /\ \E p, q \in Procs :
       /\ p # q
       /\ ReturnedConn(p) /\ ~found[p]
       /\ ReturnedConn(q) /\ found[q]

\* C18: Connect leaves the fields of every SQLConnector as they were built:
\* the configuration and the tracer with its default scope.
C18_ConnectorFieldsUnchanged ==
  \A c \in Connectors :
    /\ config[c] = ConnectorConfig(c)
    /\ tracer[c] = NewDefaultObservability(config[c])

\* C19: a call whose lookup found the key keeps the handle it found, never
\* loads a configuration, never takes the write lock, constructs nothing and
\* writes nothing to the map, and the Connection it returns references the
\* handle found at the lookup.
C19_HitReusesHandle ==
  \A p \in Procs :
    found[p]
      => /\ pc[p] \notin {"load", "lock", "construct", "unlock"}
         /\ clientMutext.writer # p
         /\ athenaClient[p] = client[p]
         /\ client[p] \in StoredUnder(cacheKey[p])
         /\ awsConfig[p] = ZeroConfig
         /\ \A s \in everStored : s.handle.owner # CallOf(p)
         /\ result[p].done
              => (ReturnedConn(p) /\ result[p].conn.athenaAPI = client[p])

\* A call has returned a Connection with the handle another call stored.
C19_Witness ==
  \E p \in Procs :
    /\ found[p]
    /\ ReturnedConn(p)
    /\ result[p].conn.athenaAPI = clients[cacheKey[p]]
    /\ result[p].conn.athenaAPI.owner[1] # p

\* C20: the handle a returned Connection references was constructed from
\* the configuration load the caller's own resolution makes: same call
\* shape, region, profile, access id, secret key and session token.
C20_HandleBuiltForCaller ==
  \A p \in Procs :
    ReturnedConn(p)
      => result[p].conn.athenaAPI.cfg = Resolve(config[recv[p]], env).load

====
